---- MODULE Spec2Model ----
(***************************************************************************)
(* The LSi correlator IOC: the register (PV) store of LSiCorrelatorIOC,    *)
(* its asynchronous writes through the thread pool, and the measurement    *)
(* run take_data, against the device of the mocked correlator API.         *)
(*                                                                         *)
(* Values.  Boolean registers hold 0/1 (Python's False/True).  The         *)
(* float-as-integer registers whose converter is round() (REPETITIONS,     *)
(* MEASUREMENTDURATION) hold their value in HALVES, so that round() is not *)
(* the identity: 3 stands for 1.5.  Enumerated registers hold the index    *)
(* of the member.  ERRORMSG holds the text of the message.                 *)
(*                                                                         *)
(* Atomicity.  A client write (LSiCorrelatorIOC.write, run by the server   *)
(* thread) is one step.  Under StoreSpec a task of the pool takes one step *)
(* per access to shared state: the device call, setParam(X),               *)
(* setParam(X.VAL) with the status stamp, and the same for X:SP.  Under    *)
(* Spec and SeqSpec the run takes one step per published register and per  *)
(* device call, and a register task (none has a device setter there) is    *)
(* one step.                                                               *)
(* StartSpec is SeqSpec with a client that only starts runs; FailureSpec   *)
(* has the runs and the fine-grained register tasks of the writes that     *)
(* raise; DataSpec follows the data of one repetition from the device to   *)
(* the registers and the files.  StopSpec is StartSpec with writes to STOP *)
(* during a run; ArraySpec is DataSpec with the publication statement by   *)
(* statement and a client that writes to the array registers; UnknownSpec  *)
(* is StoreSpec with writes to names the PV database does not have;        *)
(* CatalogSpec is the build of the PV database from its records.           *)
(*                                                                         *)
(* The device.  The correlator is the one of the mocked API; it finishes a *)
(* measurement when its collection time has passed, which a poll may find  *)
(* at any time.  The vendor's setters are not part of the repository: the  *)
(* setter of the measurement duration is taken to refuse (ValueError) a    *)
(* duration below one second, the others to accept every value.            *)
(***************************************************************************)
EXTENDS Integers, Sequences, FiniteSets, TLC

\* ---------------------------------------------------------------- bounds
\* client writes in one behaviour of the measurement control (Spec)
MaxWrites == 2
\* client writes in one behaviour of the runs in sequence (SeqSpec)
MaxSeqWrites == 3
\* client writes in one behaviour of the register store (StoreSpec)
MaxStoreWrites == 2
\* runs a client starts in one behaviour of the runs alone (StartSpec)
MaxStartWrites == 2
\* client writes in one behaviour of the failures (FailureSpec)
MaxFailureWrites == 2
\* client writes in one behaviour of the runs with STOP (StopSpec)
MaxStopWrites == 3
\* largest value (in halves) a client writes to a round() register
MaxHalves == 3

\* ------------------------------------------------------------- registers
\* The members of the enumerated register, in declaration order.
EnumMembers == <<"AUTO", "CROSS">>

\* name |-> has_setpoint, the converter pair, whether a device setter is
\* attached.  WAITING, TAKING_DATA and WAIT_AT_START are the records named by
\* take_data and by Defaults; they are binary like RUNNING.  WAIT (seconds)
\* and MIN_TIME_LAG (nanoseconds) are the other two records that take_data
\* reads and Defaults sets; their values are stored as written.  The setter
\* of STOP is stop_device, which is no setting of the device.
Records ==
  [ START               |-> [sp |-> TRUE,  conv |-> "bool",  dev |-> FALSE],
    REPETITIONS         |-> [sp |-> TRUE,  conv |-> "round", dev |-> FALSE],
    CURRENT_REPETITION  |-> [sp |-> FALSE, conv |-> "none",  dev |-> FALSE],
    RUNNING             |-> [sp |-> FALSE, conv |-> "bool",  dev |-> FALSE],
    WAITING             |-> [sp |-> FALSE, conv |-> "bool",  dev |-> FALSE],
    TAKING_DATA         |-> [sp |-> FALSE, conv |-> "bool",  dev |-> FALSE],
    CONNECTED           |-> [sp |-> FALSE, conv |-> "bool",  dev |-> FALSE],
    WAIT_AT_START       |-> [sp |-> TRUE,  conv |-> "bool",  dev |-> FALSE],
    WAIT                |-> [sp |-> TRUE,  conv |-> "none",  dev |-> FALSE],
    MIN_TIME_LAG        |-> [sp |-> TRUE,  conv |-> "none",  dev |-> FALSE],
    STOP                |-> [sp |-> TRUE,  conv |-> "bool",  dev |-> FALSE],
    ERRORMSG            |-> [sp |-> FALSE, conv |-> "none",  dev |-> FALSE],
    CORRELATIONTYPE     |-> [sp |-> TRUE,  conv |-> "enum",  dev |-> TRUE],
    MEASUREMENTDURATION |-> [sp |-> TRUE,  conv |-> "round", dev |-> TRUE] ]

RecordNames == DOMAIN Records
SetpointRecords == {r \in RecordNames : Records[r].sp}
DeviceRecords == {r \in RecordNames : Records[r].dev}

SP(r) == r \o ":SP"
VAL(r) == r \o ".VAL"

\* Record.generate_database_entries: the entries that carry a value ...
ValueNames ==
  RecordNames \cup {VAL(r) : r \in RecordNames}
    \cup {SP(r) : r \in SetpointRecords} \cup {VAL(SP(r)) : r \in SetpointRecords}
\* ... and the entries that carry an alarm status and severity
StatusNames == RecordNames \cup {SP(r) : r \in SetpointRecords}

\* reason.endswith(":SP")
EndsWithSP(reason) ==
  Len(reason) >= 3 /\ SubSeq(reason, Len(reason) - 2, Len(reason)) = ":SP"

\* get_base_pv: reason[:-3]
get_base_pv(reason) == SubSeq(reason, 1, Len(reason) - 3)

\* ------------------------------------------------------------ converters
\* Python 3 round() of a value given in halves: half to even, a whole number
PyRound(h) ==
  LET q == h \div 2
      r == h % 2
  IN  IF r = 0 THEN q ELSE IF q % 2 = 0 THEN q ELSE q + 1

\* bool(value), as 0/1
PyBool(v) == IF v = 0 THEN 0 ELSE 1

\* convert_pv_enum_to_lsi_enum raises IndexError outside the list; Python
\* accepts the negative indexes -len..-1
EnumIndexOk(v) == v >= 0 - Len(EnumMembers) /\ v < Len(EnumMembers)
convert_pv_enum_to_lsi_enum(v) ==
  EnumMembers[(IF v < 0 THEN v + Len(EnumMembers) ELSE v) + 1]
\* the position of the member counted from one instead of its index
convert_lsi_enum_to_pv_position(m) ==
  CHOOSE i \in 1..Len(EnumMembers) : EnumMembers[i] = m
convert_lsi_enum_to_pv_value(m) ==
  (CHOOSE i \in 1..Len(EnumMembers) : EnumMembers[i] = m) - 1

\* record.value.convert_from_pv(value) raises
ConversionRaises(r, v) == Records[r].conv = "enum" /\ ~EnumIndexOk(v)

convert_from_pv(r, v) ==
  CASE Records[r].conv = "bool"  -> PyBool(v)
    [] Records[r].conv = "round" -> PyRound(v)
    [] Records[r].conv = "enum"  -> convert_pv_enum_to_lsi_enum(v)
    [] OTHER                     -> v

\* record.value.convert_to_pv(value_for_lsi_driver); a whole number stored in
\* a float register is that number of halves
convert_to_pv(r, d) ==
  CASE Records[r].conv = "round" -> 2 * d
    [] Records[r].conv = "enum"  -> convert_lsi_enum_to_pv_value(d)
    [] OTHER                     -> d

\* new_pv_value of update_pv_and_write_to_device
NewPvValue(r, v) == convert_to_pv(r, convert_from_pv(r, v))

\* record.value.set_on_device raises ValueError: the device refuses a
\* measurement duration below one second
DeviceRejects(r, v) ==
  r = "MEASUREMENTDURATION" /\ convert_from_pv(r, v) < 1

\* ------------------------------------------------------------- messages
MsgNone == ""
MsgBadPath == "LSiCorrelatorDriver: invalid file path"
MsgActive == "LSI --- Cannot configure: Measurement active"
MsgDisconnected == "LSI --- Cannot configure: Correlator disconnected or measurement active"
MsgNotFound(reason) == "Can't update PV " \o reason \o ", PV not found"
MsgDeviceError == "ValueError raised by the device setter"
MsgNoData == "LSiCorrelatorDriver: No data read, device could be disconnected"

NoAlarm == <<"NO_ALARM", "NO_ALARM">>
TimeoutInvalid == <<"TIMEOUT_ALARM", "INVALID_ALARM">>

\* set_disconnected_alarms(in_alarm): the status and severity it chooses ...
DisconnectedAlarm(in_alarm) == IF in_alarm THEN TimeoutInvalid ELSE NoAlarm

\* ... and the entries it stamps: for record in Records, by record.name
set_disconnected_alarms(ps, in_alarm) ==
  [name \in DOMAIN ps |->
     IF name \in RecordNames THEN DisconnectedAlarm(in_alarm) ELSE ps[name]]

VARIABLES
  params,           \* the pcaspy parameter table: ValueNames -> value
  pstat,            \* status and severity of each entry: StatusNames -> alarm
  alarm,            \* <<self.alarm_status, self.alarm_severity>>
  already_started,  \* self.already_started
  pool,             \* THREADPOOL: the submitted tasks that have not returned
  device,           \* the correlator: measurement_on, Correlation, disconnected, settings
  driver,           \* LSiCorrelatorVendorInterface: has_data, is_connected
  path_ok,          \* os.path.isdir, escaped(self.user_filepath) when the IOC started
  isdir,            \* the directory user_filepath exists now
  escaped,          \* an exception has left write, update_pv_and_write_to_device or take_data
  nwrites           \* client writes so far

vars == <<params, pstat, alarm, already_started, pool, device, driver, path_ok, isdir, escaped,
          nwrites>>

\* ---------------------------------------------------------- _error_handler
\* A wrapper that lets the exception through
error_handler_reraises(raised) == IF raised THEN "raised" ELSE "returned"

\* _error_handler(func): try: return func(...) except Exception: print_and_log;
\* how the wrapped write, update_pv_and_write_to_device or take_data ends
\* for its caller when its body raised, or did not
error_handler(raised) == "returned"

\* ------------------------------------------------------------------ tasks
\* THREADPOOL.submit(self.update_pv_and_write_to_device, reason, value, update_setpoint)
RegTask(reason, value, update_setpoint, rejected) ==
  [kind |-> "reg", pc |-> "dev", reason |-> reason, value |-> value,
   sp |-> update_setpoint, rej |-> rejected,
   n |-> 0, was |-> 0, rep |-> 0, starts |-> 0, nodata |-> {}, saved |-> {},
   waited |-> {}, cfgerr |-> FALSE, first |-> "none", updated |-> FALSE,
   stop_called |-> FALSE, wait_in_seconds |-> 0, min_time_lag_ns |-> 0]

\* THREADPOOL.submit(self.take_data)
RunTask ==
  [kind |-> "run", pc |-> "cfg", reason |-> "START", value |-> 0,
   sp |-> FALSE, rej |-> FALSE,
   n |-> 0, was |-> 0, rep |-> 0, starts |-> 0, nodata |-> {}, saved |-> {},
   waited |-> {}, cfgerr |-> FALSE, first |-> "none", updated |-> FALSE,
   stop_called |-> FALSE, wait_in_seconds |-> 0, min_time_lag_ns |-> 0]

\* n, was, wait_in_seconds, min_time_lag_ns: the locals no_repetitions,
\* wait_at_start, wait_in_seconds and min_time_lag_ns of take_data; nodata: the repetitions of the run whose own acquisition found no
\* correlation; saved: the repetitions whose files were written; waited: the
\* repetitions before whose acquisition wait() was called; cfgerr: configure()
\* raised at the start of the run; first: what the first poll of the polling
\* loop the run is in returned; updated: the loop has called update();
\* stop_called: device.stop() was called while the run was under way

\* the task at position i has returned
Remove(q, i) == SubSeq(q, 1, i - 1) \o SubSeq(q, i + 1, Len(q))

RunsInPool == {i \in 1..Len(pool) : pool[i].kind = "run"}

\* ------------------------------------------------------- the register store
\* update_param_and_fields(reason, value), in one step
SetParamAndVal(p, name, value) == [p EXCEPT ![name] = value, ![VAL(name)] = value]

\* update_pv_and_write_to_device(reason, value) called by the calling thread
\* itself for one of the registers without device setter
Publish(p, r, value) == SetParamAndVal(p, r, NewPvValue(r, value))

\* update_error_pv_print_and_log(error)
ErrorPv(p, error) == SetParamAndVal(p, "ERRORMSG", error)

\* getParam(reason) whatever the name ends with
getParam_of_reason(p, reason) == p[reason]

\* read(reason): getParam of the base register
read(p, reason) == IF EndsWithSP(reason) THEN p[get_base_pv(reason)] ELSE p[reason]

\* get_converted_pv_value(reason)
get_converted_pv_value(p, reason) ==
  IF reason \in RecordNames THEN convert_from_pv(reason, read(p, reason))
  ELSE read(p, reason)

\* ------------------------------------------------------------------- Init
\* Defaults.defaults, written by __init__ through update_pv_and_write_to_device
\* (without update_setpoint); the other entries keep the initial value of the
\* PV database
InitParams(ok) ==
  LET zero == [name \in ValueNames |-> 0]
      d1 == Publish(zero, "REPETITIONS", convert_to_pv("REPETITIONS", 2))
      d2 == Publish(d1, "MEASUREMENTDURATION", convert_to_pv("MEASUREMENTDURATION", 10))
      d3 == Publish(d2, "CORRELATIONTYPE", convert_to_pv("CORRELATIONTYPE", "AUTO"))
      d4 == Publish(d3, "CONNECTED", 1)
      d5 == Publish(d4, "MIN_TIME_LAG", 200)
  IN  ErrorPv(d5, IF ok THEN MsgNone ELSE MsgBadPath)

Init ==
  /\ path_ok \in BOOLEAN
  /\ params = InitParams(path_ok)
  /\ isdir = path_ok
  /\ escaped = FALSE
  /\ pstat = [name \in StatusNames |-> NoAlarm]
  /\ alarm = NoAlarm
  /\ already_started = FALSE
  /\ pool = <<>>
  /\ device = [measurement_on |-> FALSE, Correlation |-> "None",
               disconnected |-> FALSE,
               update_called_when_measurement_not_on |-> FALSE,
               settings |-> [r \in DeviceRecords |->
                               IF r = "CORRELATIONTYPE" THEN "AUTO" ELSE 10]]
  /\ driver = [has_data |-> FALSE, is_connected |-> TRUE]
  /\ nwrites = 0

\* --------------------------------------------------------- client writes
\* What a client writes to start runs and to set their repetitions ...
RunWrites ==
  {<<"START", 0>>, <<"START", 1>>, <<"START:SP", 1>>}
    \cup {<<"REPETITIONS:SP", h>> : h \in 1..MaxHalves}

\* ... and what it writes to the settings of the device.  START.VAL is an
\* entry of the PV database that no record defines.
StoreWrites ==
  {<<"START.VAL", 1>>}
    \cup {<<"MEASUREMENTDURATION", h>> : h \in 1..MaxHalves}
    \cup {<<"MEASUREMENTDURATION:SP", h>> : h \in 1..MaxHalves}
    \cup {<<"CORRELATIONTYPE", i>> : i \in 0..Len(EnumMembers)}
    \cup {<<"CORRELATIONTYPE:SP", i>> : i \in 0..Len(EnumMembers)}

\* The guard forgotten: every START write submits a run
starts_run_unguarded(reason) == reason = "START"

\* if reason == Records.START.name and not self.already_started
starts_run(reason) == reason = "START" /\ ~already_started

\* elif reason == Records.START.name and self.already_started
rejects_start(reason) == reason = "START" /\ already_started

\* LSiCorrelatorIOC.write(reason, value)
write(reason, value) ==
  LET starts == starts_run(reason)
      rejected == rejects_start(reason)
      submitted == IF starts THEN Append(pool, RunTask) ELSE pool
      task == IF EndsWithSP(reason)
              THEN RegTask(get_base_pv(reason), value, TRUE, rejected)
              ELSE RegTask(reason, value, FALSE, rejected)
  IN  /\ nwrites' = nwrites + 1
      /\ params' = IF rejected THEN ErrorPv(params, MsgActive) ELSE params
      /\ pstat' = IF rejected THEN [pstat EXCEPT !["ERRORMSG"] = alarm] ELSE pstat
      /\ pool' = Append(submitted, task)
      /\ UNCHANGED <<alarm, already_started, device, driver, path_ok, isdir, escaped>>

ClientWrite == nwrites < MaxWrites /\ \E w \in RunWrites : write(w[1], w[2])

StoreWrite == nwrites < MaxStoreWrites /\ \E w \in StoreWrites : write(w[1], w[2])

\* ----------------------------------- update_pv_and_write_to_device (a task)
\* The value refused by the device is stored all the same
AfterValueErrorStores(p, r, v) ==
  SetParamAndVal(ErrorPv(p, MsgDeviceError), r, NewPvValue(r, v))

\* except ValueError: the error PV receives "invalid value" and then
\* str(error); return
AfterValueError(p, r, v) == ErrorPv(p, MsgDeviceError)

\* The mirror updated whatever name the write came through
updates_mirror_always(t) == Records[t.reason].sp

\* if update_setpoint:
updates_mirror(t) == t.sp

\* The device call: lookup, conversion, set_on_device
RegDevice(i) ==
  LET t == pool[i]
      r == t.reason
  IN  /\ t.kind = "reg" /\ t.pc = "dev"
      /\ IF r \notin RecordNames
         THEN \* KeyError: the error PV is updated, nothing else
              /\ params' = ErrorPv(params, MsgNotFound(r))
              /\ pstat' = [pstat EXCEPT !["ERRORMSG"] = alarm]
              /\ pool' = Remove(pool, i)
              /\ UNCHANGED <<device, escaped>>
         ELSE IF ConversionRaises(r, t.value)
         THEN \* the converter raises: _error_handler logs it and returns
              /\ pool' = Remove(pool, i)
              /\ escaped' = (escaped \/ error_handler(TRUE) = "raised")
              /\ UNCHANGED <<params, pstat, device>>
         ELSE IF DeviceRejects(r, t.value)
         THEN \* ValueError: "invalid value", then str(error), then return
              /\ params' = AfterValueError(params, r, t.value)
              /\ pstat' = [pstat EXCEPT !["ERRORMSG"] = alarm]
              /\ pool' = Remove(pool, i)
              /\ UNCHANGED <<device, escaped>>
         ELSE /\ device' = IF r \in DeviceRecords
                           THEN [device EXCEPT
                                   !.settings[r] = convert_from_pv(r, t.value)]
                           ELSE device
              /\ pool' = [pool EXCEPT ![i].pc = "param"]
              /\ UNCHANGED <<params, pstat, escaped>>
      /\ UNCHANGED <<alarm, already_started, driver, path_ok, isdir, nwrites>>

\* setParam(reason, value) given the value as written, not new_pv_value
RegParamRaw(i) ==
  LET t == pool[i]
  IN  /\ t.kind = "reg" /\ t.pc = "param"
      /\ params' = [params EXCEPT ![t.reason] = t.value]
      /\ pool' = [pool EXCEPT ![i].pc = "val"]
      /\ UNCHANGED <<pstat, alarm, already_started, device, driver, path_ok, isdir,
                     escaped, nwrites>>

\* update_param_and_fields(reason, new_pv_value): setParam(reason, value)
RegParam(i) ==
  LET t == pool[i]
  IN  /\ t.kind = "reg" /\ t.pc = "param"
      /\ params' = [params EXCEPT ![t.reason] = NewPvValue(t.reason, t.value)]
      /\ pool' = [pool EXCEPT ![i].pc = "val"]
      /\ UNCHANGED <<pstat, alarm, already_started, device, driver, path_ok, isdir, escaped,
                     nwrites>>

\* ... setParam(reason.VAL, value) and setParamStatus(reason, ...)
RegVal(i) ==
  LET t == pool[i]
  IN  /\ t.kind = "reg" /\ t.pc = "val"
      /\ params' = [params EXCEPT ![VAL(t.reason)] = NewPvValue(t.reason, t.value)]
      /\ pstat' = [pstat EXCEPT ![t.reason] = alarm]
      /\ pool' = IF updates_mirror(t) THEN [pool EXCEPT ![i].pc = "sp"]
                 ELSE Remove(pool, i)
      /\ UNCHANGED <<alarm, already_started, device, driver, path_ok, isdir, escaped, nwrites>>

\* The mirror given the value as written, not new_pv_value
RegSetpointRaw(i) ==
  LET t == pool[i]
  IN  /\ t.kind = "reg" /\ t.pc = "sp"
      /\ params' = [params EXCEPT ![SP(t.reason)] = t.value]
      /\ pool' = [pool EXCEPT ![i].pc = "spval"]
      /\ UNCHANGED <<pstat, alarm, already_started, device, driver, path_ok, isdir, escaped,
                     nwrites>>

\* if update_setpoint: update_param_and_fields(reason:SP, ...) for a register
\* without setpoint: setParam of a name the driver does not have raises
\* KeyError, which update_param_and_fields does not catch; _error_handler
\* logs it and the task returns
RegSetpointRaises(i) ==
  LET t == pool[i]
  IN  /\ t.kind = "reg" /\ t.pc = "sp"
      /\ SP(t.reason) \notin DOMAIN params
      /\ pool' = Remove(pool, i)
      /\ escaped' = (escaped \/ error_handler(TRUE) = "raised")
      /\ UNCHANGED <<params, pstat, alarm, already_started, device, driver, path_ok, isdir,
                     nwrites>>

\* if update_setpoint: update_param_and_fields(reason:SP, new_pv_value)
RegSetpoint(i) ==
  LET t == pool[i]
  IN  /\ t.kind = "reg" /\ t.pc = "sp"
      /\ SP(t.reason) \in DOMAIN params
      /\ params' = [params EXCEPT ![SP(t.reason)] = NewPvValue(t.reason, t.value)]
      /\ pool' = [pool EXCEPT ![i].pc = "spval"]
      /\ UNCHANGED <<pstat, alarm, already_started, device, driver, path_ok, isdir, escaped,
                     nwrites>>

RegSetpointVal(i) ==
  LET t == pool[i]
  IN  /\ t.kind = "reg" /\ t.pc = "spval"
      /\ params' = [params EXCEPT ![VAL(SP(t.reason))] = NewPvValue(t.reason, t.value)]
      /\ pstat' = [pstat EXCEPT ![SP(t.reason)] = alarm]
      /\ pool' = Remove(pool, i)
      /\ UNCHANGED <<alarm, already_started, device, driver, path_ok, isdir, escaped, nwrites>>

\* update_pv_and_write_to_device(reason, value, update_setpoint) as one step,
\* for the registers without device setter
RegApply(i) ==
  LET t == pool[i]
      r == t.reason
      new == NewPvValue(r, t.value)
      set == SetParamAndVal(params, r, new)
  IN  /\ t.kind = "reg" /\ r \in RecordNames \ (DeviceRecords \cup {"STOP"})
      /\ params' = IF updates_mirror(t) THEN SetParamAndVal(set, SP(r), new) ELSE set
      /\ pstat' = IF updates_mirror(t) THEN [pstat EXCEPT ![r] = alarm, ![SP(r)] = alarm]
                  ELSE [pstat EXCEPT ![r] = alarm]
      /\ pool' = Remove(pool, i)
      /\ UNCHANGED <<alarm, already_started, device, driver, path_ok, isdir, escaped, nwrites>>

\* stop_device(device, _): device.stop().  The vendor's stop is not part of
\* the repository and the mock's is a MagicMock that does nothing: the
\* measurement is switched off (stops) or goes on
stop_device(d, stops) ==
  IF stops THEN [d EXCEPT !.measurement_on = FALSE] ELSE d

\* update_pv_and_write_to_device(STOP, value, update_setpoint) as one step
StopApply(i) ==
  LET t == pool[i]
      new == NewPvValue("STOP", t.value)
      set == SetParamAndVal(params, "STOP", new)
      marked == [j \in 1..Len(pool) |->
                   IF pool[j].kind = "run" /\ pool[j].pc \notin {"cfg", "guard"}
                   THEN [pool[j] EXCEPT !.stop_called = TRUE] ELSE pool[j]]
  IN  /\ t.kind = "reg" /\ t.reason = "STOP"
      /\ \E stops \in BOOLEAN : device' = stop_device(device, stops)
      /\ params' = IF updates_mirror(t) THEN SetParamAndVal(set, SP("STOP"), new) ELSE set
      /\ pstat' = IF updates_mirror(t)
                  THEN [pstat EXCEPT !["STOP"] = alarm, ![SP("STOP")] = alarm]
                  ELSE [pstat EXCEPT !["STOP"] = alarm]
      /\ pool' = Remove(marked, i)
      /\ UNCHANGED <<alarm, already_started, driver, path_ok, isdir, escaped, nwrites>>

RegStep(i) ==
  \/ RegDevice(i) \/ RegParam(i) \/ RegVal(i)
  \/ RegSetpoint(i) \/ RegSetpointRaises(i) \/ RegSetpointVal(i)

\* -------------------------------------------------------------- the device
\* MockedCorrelatorAPI.is_measurement_on: when the collection time has
\* passed (elapsed) the measurement is switched off
MeasurementOn(d, elapsed) == d.measurement_on /\ ~elapsed
AfterMeasurementOn(d, elapsed) ==
  [d EXCEPT !.measurement_on = MeasurementOn(d, elapsed)]

\* MockedCorrelatorAPI.configure raises RuntimeError
ConfigureRaises(d, elapsed) == MeasurementOn(d, elapsed) \/ d.disconnected
ConfigureError(d, elapsed) ==
  IF MeasurementOn(d, elapsed) THEN MsgActive ELSE MsgDisconnected

\* MockedCorrelatorAPI.start
DeviceStart(d) == [d EXCEPT !.measurement_on = TRUE]

\* MockedCorrelatorAPI.update
DeviceUpdate(d) ==
  [d EXCEPT !.Correlation = IF d.disconnected THEN "None" ELSE "data",
            !.update_called_when_measurement_not_on = @ \/ ~d.measurement_on]

\* The correlator is unplugged, or plugged in again
ConnectionChanges ==
  /\ device.measurement_on
  /\ device' = [device EXCEPT !.disconnected = ~device.disconnected]
  /\ UNCHANGED <<params, pstat, alarm, already_started, pool, driver, path_ok, isdir, escaped,
                 nwrites>>

\* The directory user_filepath, missing when the IOC started, is created
DirectoryCreated ==
  /\ ~isdir
  /\ isdir' = TRUE
  /\ UNCHANGED <<params, pstat, alarm, already_started, pool, device, driver,
                 path_ok, escaped, nwrites>>

\* ------------------------------------------------- take_data (a task): the run
\* A loop that reads REPETITIONS again before each repetition
NextRepetitionRereads(t) ==
  IF t.rep + 1 > get_converted_pv_value(params, "REPETITIONS")
  THEN [t EXCEPT !.pc = "fin"]
  ELSE [t EXCEPT !.pc = "rep", !.rep = t.rep + 1]

\* What is left of the loop after repetition t.rep
NextRepetition(t) ==
  IF t.rep + 1 > t.n THEN [t EXCEPT !.pc = "fin"]
  ELSE [t EXCEPT !.pc = "rep", !.rep = t.rep + 1]

\* self.driver.configure(); a RuntimeError goes to the error PV
RunConfigure(i) ==
  LET t == pool[i]
  IN  /\ t.kind = "run" /\ t.pc = "cfg"
      /\ \E elapsed \in BOOLEAN :
           /\ device' = AfterMeasurementOn(device, elapsed)
           /\ params' = IF ConfigureRaises(device, elapsed)
                        THEN ErrorPv(params, ConfigureError(device, elapsed))
                        ELSE params
           /\ pstat' = IF ConfigureRaises(device, elapsed)
                       THEN [pstat EXCEPT !["ERRORMSG"] = alarm] ELSE pstat
           /\ pool' = [pool EXCEPT ![i].pc = "guard",
                                   ![i].cfgerr = ConfigureRaises(device, elapsed)]
      /\ UNCHANGED <<alarm, already_started, driver, path_ok, isdir, escaped, nwrites>>

\* The run reads its parameters, sets self.already_started and publishes
\* TAKING_DATA; range(1, no_repetitions + 1)
RunGuard(i) ==
  LET t == pool[i]
      n == get_converted_pv_value(params, "REPETITIONS")
      was == get_converted_pv_value(params, "WAIT_AT_START")
      wait == get_converted_pv_value(params, "WAIT")
      lag == get_converted_pv_value(params, "MIN_TIME_LAG")
  IN  /\ t.kind = "run" /\ t.pc = "guard"
      /\ already_started' = TRUE
      /\ params' = Publish(params, "TAKING_DATA", 1)
      /\ pstat' = [pstat EXCEPT !["TAKING_DATA"] = alarm]
      /\ pool' = [pool EXCEPT ![i] = NextRepetition(
                    [t EXCEPT !.n = n, !.was = was,
                              !.wait_in_seconds = wait, !.min_time_lag_ns = lag])]
      /\ UNCHANGED <<alarm, device, driver, path_ok, isdir, escaped, nwrites>>

\* update_pv_and_write_to_device(CURRENT_REPETITION, repeat)
RunRepetition(i) ==
  LET t == pool[i]
      waits == (t.rep = 1 /\ t.was = 1) \/ t.rep # 1
  IN  /\ t.kind = "run" /\ t.pc = "rep"
      /\ params' = Publish(params, "CURRENT_REPETITION", t.rep)
      /\ pstat' = [pstat EXCEPT !["CURRENT_REPETITION"] = alarm]
      /\ pool' = [pool EXCEPT ![i].pc = IF waits THEN "wait" ELSE "running"]
      /\ UNCHANGED <<alarm, already_started, device, driver, path_ok, isdir, escaped, nwrites>>

\* wait(): WAITING true ...
RunWait(i) ==
  LET t == pool[i]
  IN  /\ t.kind = "run" /\ t.pc = "wait"
      /\ params' = Publish(params, "WAITING", 1)
      /\ pstat' = [pstat EXCEPT !["WAITING"] = alarm]
      /\ pool' = [pool EXCEPT ![i].pc = "waited"]
      /\ UNCHANGED <<alarm, already_started, device, driver, path_ok, isdir, escaped, nwrites>>

\* ... sleep, WAITING false
RunWaited(i) ==
  LET t == pool[i]
  IN  /\ t.kind = "run" /\ t.pc = "waited"
      /\ params' = Publish(params, "WAITING", 0)
      /\ pstat' = [pstat EXCEPT !["WAITING"] = alarm]
      /\ pool' = [pool EXCEPT ![i].pc = "running", ![i].waited = @ \cup {t.rep}]
      /\ UNCHANGED <<alarm, already_started, device, driver, path_ok, isdir, escaped, nwrites>>

\* update_pv_and_write_to_device(RUNNING, True)
RunRunning(i) ==
  LET t == pool[i]
  IN  /\ t.kind = "run" /\ t.pc = "running"
      /\ params' = Publish(params, "RUNNING", 1)
      /\ pstat' = [pstat EXCEPT !["RUNNING"] = alarm]
      /\ pool' = [pool EXCEPT ![i].pc = "start"]
      /\ UNCHANGED <<alarm, already_started, device, driver, path_ok, isdir, escaped, nwrites>>

\* driver.take_data: self.device.start()
RunStart(i) ==
  LET t == pool[i]
  IN  /\ t.kind = "run" /\ t.pc = "start"
      /\ device' = DeviceStart(device)
      /\ pool' = [pool EXCEPT ![i].pc = "poll", ![i].starts = t.starts + 1]
      /\ UNCHANGED <<params, pstat, alarm, already_started, driver, path_ok, isdir, escaped,
                     nwrites>>

\* while self.device.MeasurementOn(): sleep(0.5); self.device.update()
RunPollOn(i) ==
  LET t == pool[i]
  IN  /\ t.kind = "run" /\ t.pc = "poll"
      /\ MeasurementOn(device, FALSE)
      /\ device' = DeviceUpdate(device)
      /\ pool' = [pool EXCEPT ![i].first = IF @ = "none" THEN "on" ELSE @,
                              ![i].updated = TRUE]
      /\ UNCHANGED <<params, pstat, alarm, already_started, driver, path_ok, isdir, escaped,
                     nwrites>>

\* A loop that tests the poll after its body: update() is called once more
\* after the poll that found the measurement off
RunPollOffUpdates(i) ==
  LET t == pool[i]
  IN  /\ t.kind = "run" /\ t.pc = "poll"
      /\ \E elapsed \in BOOLEAN :
           /\ ~MeasurementOn(device, elapsed)
           /\ device' = DeviceUpdate(AfterMeasurementOn(device, elapsed))
      /\ driver' = IF device'.Correlation = "None"
                   THEN [has_data |-> FALSE, is_connected |-> FALSE]
                   ELSE [driver EXCEPT !.has_data = TRUE]
      /\ pool' = [pool EXCEPT
                    ![i].pc = "stopped", ![i].first = "none", ![i].updated = FALSE,
                    ![i].nodata = IF device'.Correlation = "None"
                                  THEN t.nodata \cup {t.rep} ELSE t.nodata]
      /\ UNCHANGED <<params, pstat, alarm, already_started, path_ok, isdir, escaped, nwrites>>

\* The loop ends: if self.device.Correlation is None ... else ...
RunPollOff(i) ==
  LET t == pool[i]
      none == device.Correlation = "None"
  IN  /\ t.kind = "run" /\ t.pc = "poll"
      /\ \E elapsed \in BOOLEAN :
           /\ ~MeasurementOn(device, elapsed)
           /\ device' = AfterMeasurementOn(device, elapsed)
      /\ driver' = IF none THEN [has_data |-> FALSE, is_connected |-> FALSE]
                   ELSE [driver EXCEPT !.has_data = TRUE]
      /\ pool' = [pool EXCEPT
                    ![i].pc = "stopped", ![i].first = "none", ![i].updated = FALSE,
                    ![i].nodata = IF none THEN t.nodata \cup {t.rep} ELSE t.nodata]
      /\ UNCHANGED <<params, pstat, alarm, already_started, path_ok, isdir, escaped, nwrites>>

\* update_pv_and_write_to_device(RUNNING, False)
RunStopped(i) ==
  LET t == pool[i]
  IN  /\ t.kind = "run" /\ t.pc = "stopped"
      /\ params' = Publish(params, "RUNNING", 0)
      /\ pstat' = [pstat EXCEPT !["RUNNING"] = alarm]
      /\ pool' = [pool EXCEPT ![i].pc = "branch"]
      /\ UNCHANGED <<alarm, already_started, device, driver, path_ok, isdir, escaped, nwrites>>

\* A data branch that reports the correlator connected again:
\* CONNECTED true and set_disconnected_alarms(False)
RunHasDataReconnects(i) ==
  LET t == pool[i]
  IN  /\ t.kind = "run" /\ t.pc = "branch"
      /\ driver.has_data
      /\ params' = Publish(params, "CONNECTED", 1)
      /\ alarm' = DisconnectedAlarm(FALSE)
      /\ pstat' = set_disconnected_alarms(pstat, FALSE)
      /\ pool' = [pool EXCEPT ![i].pc = "persist"]
      /\ UNCHANGED <<already_started, device, driver, path_ok, isdir, escaped, nwrites>>

\* if self.driver.has_data: the arrays are published
RunHasData(i) ==
  LET t == pool[i]
  IN  /\ t.kind = "run" /\ t.pc = "branch"
      /\ driver.has_data
      /\ pool' = [pool EXCEPT ![i].pc = "persist"]
      /\ UNCHANGED <<params, pstat, alarm, already_started, device, driver,
                     path_ok, isdir, escaped, nwrites>>

\* else: CONNECTED false, the error PV, set_disconnected_alarms(True), which
\* stamps the records (for record in Records), not their setpoints
RunNoData(i) ==
  LET t == pool[i]
  IN  /\ t.kind = "run" /\ t.pc = "branch"
      /\ ~driver.has_data
      /\ params' = ErrorPv(Publish(params, "CONNECTED", 0), MsgNoData)
      /\ alarm' = DisconnectedAlarm(TRUE)
      /\ pstat' = set_disconnected_alarms(pstat, TRUE)
      /\ pool' = [pool EXCEPT ![i] = NextRepetition(t)]
      /\ UNCHANGED <<already_started, device, driver, path_ok, isdir, escaped, nwrites>>

\* open(user file), open(archive file), save_data: the files are written
RunPersist(i) ==
  LET t == pool[i]
  IN  /\ t.kind = "run" /\ t.pc = "persist"
      /\ isdir
      /\ pool' = [pool EXCEPT ![i] = NextRepetition([t EXCEPT !.saved = t.saved \cup {t.rep}])]
      /\ UNCHANGED <<params, pstat, alarm, already_started, device, driver,
                     path_ok, isdir, escaped, nwrites>>

\* open() raises under a directory that does not exist: the exception leaves
\* take_data, _error_handler logs it, and the task returns
RunPersistRaises(i) ==
  LET t == pool[i]
  IN  /\ t.kind = "run" /\ t.pc = "persist"
      /\ ~isdir
      /\ pool' = Remove(pool, i)
      /\ escaped' = (escaped \/ error_handler(TRUE) = "raised")
      /\ UNCHANGED <<params, pstat, alarm, already_started, device, driver,
                     path_ok, isdir, nwrites>>

\* After the loop: update_pv_and_write_to_device(TAKING_DATA, False)
RunFinish(i) ==
  LET t == pool[i]
  IN  /\ t.kind = "run" /\ t.pc = "fin"
      /\ params' = Publish(params, "TAKING_DATA", 0)
      /\ pstat' = [pstat EXCEPT !["TAKING_DATA"] = alarm]
      /\ pool' = [pool EXCEPT ![i].pc = "release"]
      /\ UNCHANGED <<alarm, already_started, device, driver, path_ok, isdir, escaped, nwrites>>

\* self.already_started = False; update_param_and_fields(START, 0) and
\* (START:SP, 0); take_data returns
RunRelease(i) ==
  LET t == pool[i]
  IN  /\ t.kind = "run" /\ t.pc = "release"
      /\ already_started' = FALSE
      /\ params' = SetParamAndVal(SetParamAndVal(params, "START", 0), SP("START"), 0)
      /\ pstat' = [pstat EXCEPT !["START"] = alarm, ![SP("START")] = alarm]
      /\ pool' = Remove(pool, i)
      /\ UNCHANGED <<alarm, device, driver, path_ok, isdir, escaped, nwrites>>

RunStep(i) ==
  \/ RunConfigure(i) \/ RunGuard(i) \/ RunRepetition(i)
  \/ RunWait(i) \/ RunWaited(i) \/ RunRunning(i) \/ RunStart(i)
  \/ RunPollOn(i) \/ RunPollOff(i) \/ RunStopped(i)
  \/ RunHasData(i) \/ RunNoData(i) \/ RunPersist(i) \/ RunPersistRaises(i)
  \/ RunFinish(i) \/ RunRelease(i)

Next ==
  \/ ClientWrite
  \/ \E i \in 1..Len(pool) : RegApply(i)
  \/ \E i \in 1..Len(pool) : RunStep(i)
  \/ ConnectionChanges

\* The measurement control: START and REPETITIONS writes, the runs, the device
Spec == Init /\ [][Next]_vars

\* client writes in one behaviour of the run parameters (ParamSpec)
MaxParamWrites == 3

\* What a client writes to the parameters of the runs while a run is active
ParamWrites ==
  {<<"REPETITIONS:SP", h>> : h \in 1..MaxHalves}
    \cup {<<"WAIT:SP", 1>>, <<"WAIT_AT_START:SP", 1>>, <<"MIN_TIME_LAG:SP", 0>>}

\* A client that starts a run when none is active and writes the parameters
\* of the runs only while one is
ParamWrite ==
  /\ nwrites < MaxParamWrites
  /\ IF RunsInPool = {}
     THEN write("START", 1)
     ELSE /\ already_started
          /\ \E w \in ParamWrites : write(w[1], w[2])

ParamNext ==
  \/ ParamWrite
  \/ \E i \in 1..Len(pool) : RegApply(i)
  \/ \E i \in 1..Len(pool) : RunStep(i)
  \/ ConnectionChanges

\* Runs whose parameters are written while they are active
ParamSpec == Init /\ [][ParamNext]_vars

\* What a client writes between runs: a run can be told to wait at its start
SeqWrites == RunWrites \cup {<<"WAIT_AT_START:SP", 1>>}

\* A client that writes only while no run is in the pool
SeqWrite ==
  /\ nwrites < MaxSeqWrites
  /\ RunsInPool = {}
  /\ \E w \in SeqWrites : write(w[1], w[2])

SeqNext ==
  \/ SeqWrite
  \/ \E i \in 1..Len(pool) : RegApply(i)
  \/ \E i \in 1..Len(pool) : RunStep(i)
  \/ ConnectionChanges
  \/ DirectoryCreated

\* The measurement control under a client that starts its runs one after
\* another
SeqSpec == Init /\ [][SeqNext]_vars

\* A client that only starts runs, one after the other
StartWrite ==
  /\ nwrites < MaxStartWrites
  /\ RunsInPool = {}
  /\ write("START", 1)

StartNext ==
  \/ StartWrite
  \/ \E i \in 1..Len(pool) : RegApply(i)
  \/ \E i \in 1..Len(pool) : RunStep(i)
  \/ ConnectionChanges

\* Runs with the default settings, started one after the other
StartSpec == Init /\ [][StartNext]_vars

\* A client that starts runs and writes STOP while a run is under way
StopWrite ==
  /\ nwrites < MaxStopWrites
  /\ already_started /\ RunsInPool # {}
  /\ \E reason \in {"STOP", "STOP:SP"} : write(reason, 1)

StopNext ==
  \/ StartWrite
  \/ StopWrite
  \/ \E i \in 1..Len(pool) : RegApply(i)
  \/ \E i \in 1..Len(pool) : StopApply(i)
  \/ \E i \in 1..Len(pool) : RunStep(i)
  \/ ConnectionChanges

\* Runs with the default settings, and STOP written during them
StopSpec == Init /\ [][StopNext]_vars

\* What a client writes to meet every failure: a run whose files cannot be
\* opened, an index outside the enumeration, a duration the device refuses
FailureWrites ==
  {<<"START", 1>>, <<"CORRELATIONTYPE", Len(EnumMembers)>>,
   <<"CORRELATIONTYPE:SP", 1>>, <<"MEASUREMENTDURATION", 1>>}

FailureWrite ==
  /\ nwrites < MaxFailureWrites
  /\ pool = <<>>
  /\ \E w \in FailureWrites : write(w[1], w[2])

FailureNext ==
  \/ FailureWrite
  \/ \E i \in 1..Len(pool) : RegStep(i)
  \/ \E i \in 1..Len(pool) : RunStep(i)
  \/ ConnectionChanges

\* Runs and writes to the settings that raise, each write made when the tasks
\* of the write before it have returned
FailureSpec == Init /\ [][FailureNext]_vars

StoreNext ==
  \/ StoreWrite
  \/ \E i \in 1..Len(pool) : RegStep(i)

\* The register store alone: writes to the settings, no measurement
StoreSpec == Init /\ [][StoreNext]_vars

\* client writes in one behaviour of the unknown names (UnknownSpec)
MaxUnknownWrites == 2

\* Every name of the PV database
Catalog ==
  ValueNames \cup {n \o ".SEVR" : n \in StatusNames} \cup {n \o ".STAT" : n \in StatusNames}

\* Names write() is called with that the PV database does not have: a name of
\* no record, with and without :SP, and the :SP of a record without setpoint;
\* and names it has, a field and a setting
UnknownWrites ==
  {<<"FOO", 1>>, <<"FOO:SP", 1>>, <<"RUNNING:SP", 1>>, <<"START.VAL", 1>>,
   <<"MEASUREMENTDURATION:SP", 3>>}

UnknownWrite == nwrites < MaxUnknownWrites /\ \E w \in UnknownWrites : write(w[1], w[2])

UnknownNext ==
  \/ UnknownWrite
  \/ \E i \in 1..Len(pool) : RegStep(i)

\* The register store and writes to names it does not have
UnknownSpec == Init /\ [][UnknownNext]_vars

\* --------------------------------------------------------------- the data
\* longest correlation function the device holds
MaxSamples == 2

\* A float: a finite number, or one of the values np.isfinite refuses
Finite(v) == [kind |-> "finite", v |-> v]
NaN == [kind |-> "nan", v |-> 0]
Inf == [kind |-> "inf", v |-> 0]
isfinite(x) == x.kind = "finite"

\* What the device holds after a measurement: correlation samples, their time
\* lags (in the unit of MIN_TIME_LAG), and the minimum time lags of a run
CorrValues == {Finite(1), NaN, Inf}
LagValues == {1, 3}
MinTimeLags == {0, 2}

\* a[mask] of numpy: the elements of a where mask holds, in their order
RECURSIVE BoolIndex(_, _)
BoolIndex(a, mask) ==
  IF Len(a) = 0 THEN <<>>
  ELSE (IF Head(mask) THEN <<Head(a)>> ELSE <<>>) \o BoolIndex(Tail(a), Tail(mask))

\* get_data_as_arrays(): the correlation function and the time lags where the
\* correlation function is finite; the traces; the time axis in DELTA_T
get_data_as_arrays(d) ==
  LET finite == [k \in 1..Len(d.Correlation) |-> isfinite(d.Correlation[k])]
  IN  [corr       |-> BoolIndex(d.Correlation, finite),
       lags       |-> BoolIndex(d.Lags, finite),
       trace_a    |-> d.TraceChA,
       trace_b    |-> d.TraceChB,
       trace_time |-> [k \in 1..Len(d.TraceChA) |-> k - 1]]

\* np.vstack(arrays).T: row k holds element k of every array
vstackT(arrays) ==
  [k \in 1..Len(arrays[1]) |-> [c \in 1..Len(arrays) |-> arrays[c][k]]]

\* np.savetxt(file, rows, fmt=fmt): every number of every row as text in fmt
savetxt(rows, fmt) ==
  [k \in 1..Len(rows) |->
     [c \in 1..Len(rows[k]) |-> [fmt |-> fmt, number |-> rows[k][c]]]]

RECURSIVE sum(_)
sum(a) == IF Len(a) = 0 THEN 0 ELSE Head(a) + sum(Tail(a))

\* np.mean(a), kept as the fraction sum / count
mean(a) == [sum |-> sum(a), count |-> Len(a)]

\* FILE_SCHEME.format(...): the payload, rendered once
save_file(now, metadata, data) ==
  [datetime |-> now,
   duration |-> metadata["MEASUREMENTDURATION"],
   avg_count_A |-> mean(data.trace_a),
   avg_count_B |-> mean(data.trace_b),
   correlation_function |-> savetxt(vstackT(<<data.lags, data.corr>>), "%1.6e"),
   count_rate_history |->
     savetxt(vstackT(<<data.trace_time, data.trace_a, data.trace_b>>), "%.6f")]

\* for dat_file in [user_file, archive_file]: dat_file.write(save_file)
write_user_file_only(t, payload) == [t EXCEPT !.user_file = Append(@, payload)]

write_to_file(t, payload) ==
  [t EXCEPT !.user_file = Append(@, payload), !.archive_file = Append(@, payload)]

\* get_metadata(): the converted values of Defaults.metadata_records
get_metadata(p) ==
  [MEASUREMENTDURATION |-> get_converted_pv_value(p, "MEASUREMENTDURATION")]

\* save_data(user_file, archive_file, metadata)
save_data(t, d, now, metadata) ==
  write_to_file(t, save_file(now, metadata, get_data_as_arrays(d)))

\* The array registers and their count field
ArrayRecords == {"CORRELATION_FUNCTION", "LAGS"}
NORD(r) == r \o ".NORD"

\* set_array_pv_value(reason, value): the register (its converters do
\* nothing), then reason.NORD
set_array_pv_value(p, reason, value) ==
  [SetParamAndVal(p, reason, value) EXCEPT ![NORD(reason)] = Len(value)]

\* One repetition of take_data from the end of its polling loop; the files
\* are the two that take_data opens ("w+": empty) for the repetition
DataTask(min_time_lag) ==
  [kind |-> "run", pc |-> "acquired", min_time_lag |-> min_time_lag,
   user_file |-> <<>>, archive_file |-> <<>>]

\* wall-clock readings of datetime.now()
Clock == {1, 2}

DataInit ==
  /\ path_ok = TRUE
  /\ isdir = TRUE
  /\ escaped = FALSE
  /\ params = InitParams(TRUE)
                @@ [name \in ArrayRecords \cup {VAL(r) : r \in ArrayRecords} |-> <<>>]
                @@ [name \in {NORD(r) : r \in ArrayRecords} |-> 0]
  /\ pstat = [name \in StatusNames \cup ArrayRecords |-> NoAlarm]
  /\ alarm = NoAlarm
  /\ already_started = TRUE
  /\ \E m \in MinTimeLags : pool = <<DataTask(m)>>
  /\ \E n \in 0..MaxSamples :
       \E corr \in [1..n -> CorrValues], lags \in [1..n -> LagValues] :
         device = [measurement_on |-> FALSE, disconnected |-> FALSE,
                   update_called_when_measurement_not_on |-> FALSE,
                   Correlation |-> corr, Lags |-> lags,
                   TraceChA |-> <<4, 6>>, TraceChB |-> <<5, 7>>,
                   settings |-> [r \in DeviceRecords |->
                                   IF r = "CORRELATIONTYPE" THEN "AUTO" ELSE 10]]
  /\ driver = [has_data |-> FALSE, is_connected |-> TRUE, corr |-> <<>>, lags |-> <<>>]
  /\ nwrites = 0

\* driver.take_data after its loop: has_data, and corr and lags from
\* get_data_as_arrays()
DataAcquired(i) ==
  LET t == pool[i]
      data == get_data_as_arrays(device)
  IN  /\ t.pc = "acquired"
      /\ driver' = [driver EXCEPT !.has_data = TRUE,
                                  !.corr = data.corr, !.lags = data.lags]
      /\ pool' = [pool EXCEPT ![i].pc = "publish"]
      /\ UNCHANGED <<params, pstat, alarm, already_started, device, path_ok, isdir, escaped,
                     nwrites>>

\* if self.driver.has_data: set_array_pv_value(CORRELATION_FUNCTION,
\* driver.corr), set_array_pv_value(LAGS, driver.lags)
DataPublish(i) ==
  LET t == pool[i]
  IN  /\ t.pc = "publish"
      /\ driver.has_data
      /\ params' = set_array_pv_value(
                     set_array_pv_value(params, "CORRELATION_FUNCTION", driver.corr),
                     "LAGS", driver.lags)
      /\ pstat' = [pstat EXCEPT !["CORRELATION_FUNCTION"] = alarm, !["LAGS"] = alarm]
      /\ pool' = [pool EXCEPT ![i].pc = "persist"]
      /\ UNCHANGED <<alarm, already_started, device, driver, path_ok, isdir, escaped, nwrites>>

\* with open(...) as user_file, open(...) as archive_file: save_data(...)
DataSave(i) ==
  LET t == pool[i]
  IN  /\ t.pc = "persist"
      /\ \E now \in Clock :
           pool' = [pool EXCEPT
                      ![i] = [save_data(t, device, now, get_metadata(params))
                                EXCEPT !.pc = "saved"]]
      /\ UNCHANGED <<params, pstat, alarm, already_started, device, driver,
                     path_ok, isdir, escaped, nwrites>>

DataNext ==
  \/ \E i \in 1..Len(pool) : DataAcquired(i)
  \/ \E i \in 1..Len(pool) : DataPublish(i)
  \/ \E i \in 1..Len(pool) : DataSave(i)

\* The data of one repetition: what the device holds, filtered, published and
\* written to the two files
DataSpec == DataInit /\ [][DataNext]_vars

\* client writes in one behaviour of the array registers (ArraySpec)
MaxArrayWrites == 1

\* What a client writes to an array register
ClientArrays == {<<>>, <<Finite(1)>>}

\* write(reason, value) for an array register: the task is submitted
ArrayWrite ==
  /\ nwrites < MaxArrayWrites
  /\ nwrites' = nwrites + 1
  /\ \E r \in ArrayRecords, a \in ClientArrays :
       pool' = Append(pool, RegTask(r, a, FALSE, FALSE))
  /\ UNCHANGED <<params, pstat, alarm, already_started, device, driver, path_ok, isdir,
                 escaped>>

\* update_pv_and_write_to_device(reason, value) of that task: the converters
\* of an array register do nothing and it has no device setter
ArrayApply(i) ==
  LET t == pool[i]
  IN  /\ t.kind = "reg"
      /\ params' = SetParamAndVal(params, t.reason, t.value)
      /\ pstat' = [pstat EXCEPT ![t.reason] = alarm]
      /\ pool' = Remove(pool, i)
      /\ UNCHANGED <<alarm, already_started, device, driver, path_ok, isdir, escaped, nwrites>>

\* the array register a publishing run is at, and the value it publishes
ArrayAt(pc) == IF pc \in {"publish", "nord_corr"} THEN "CORRELATION_FUNCTION" ELSE "LAGS"
ArrayOf(pc) == IF pc \in {"publish", "nord_corr"} THEN driver.corr ELSE driver.lags

\* set_array_pv_value, first statement: update_pv_and_write_to_device(reason,
\* value)
ArraySet(i) ==
  LET t == pool[i]
  IN  /\ t.kind = "run" /\ t.pc \in {"publish", "lags"}
      /\ driver.has_data
      /\ params' = SetParamAndVal(params, ArrayAt(t.pc), ArrayOf(t.pc))
      /\ pstat' = [pstat EXCEPT ![ArrayAt(t.pc)] = alarm]
      /\ pool' = [pool EXCEPT ![i].pc = IF t.pc = "publish" THEN "nord_corr" ELSE "nord_lags"]
      /\ UNCHANGED <<alarm, already_started, device, driver, path_ok, isdir, escaped, nwrites>>

\* set_array_pv_value, second statement: setParam(reason.NORD, len(value))
ArrayNord(i) ==
  LET t == pool[i]
  IN  /\ t.kind = "run" /\ t.pc \in {"nord_corr", "nord_lags"}
      /\ params' = [params EXCEPT ![NORD(ArrayAt(t.pc))] = Len(ArrayOf(t.pc))]
      /\ pool' = [pool EXCEPT ![i].pc = IF t.pc = "nord_corr" THEN "lags" ELSE "persist"]
      /\ UNCHANGED <<pstat, alarm, already_started, device, driver, path_ok, isdir, escaped,
                     nwrites>>

ArrayNext ==
  \/ ArrayWrite
  \/ \E i \in 1..Len(pool) : ArrayApply(i)
  \/ \E i \in 1..Len(pool) : DataAcquired(i)
  \/ \E i \in 1..Len(pool) : ArraySet(i)
  \/ \E i \in 1..Len(pool) : ArrayNord(i)
  \/ \E i \in 1..Len(pool) : DataSave(i)

\* The publication of one repetition statement by statement, and a client
\* that writes to the array registers
ArraySpec == DataInit /\ [][ArrayNext]_vars

\* ---------------------------------------------------------- the PV database
\* records in one build of the database (CatalogSpec)
MaxDefinitions == 2

\* A PCASpy field definition: 'type', and 'count', 'unit' and 'value' where
\* it has them (0 and "" where it has not)
PvDefinition(type, count, unit, value) ==
  [type |-> type, count |-> count, unit |-> unit, value |-> value]
ALARM_STAT_PV_FIELDS == PvDefinition("enum AlarmStrings", 0, "", 0)
ALARM_SEVR_PV_FIELDS == PvDefinition("enum SeverityStrings", 0, "", 0)

\* The definitions a record is built with: a float with a unit, a float array
PvDefinitions == {PvDefinition("float", 0, "K", 0), PvDefinition("float", 400, "", 0)}

\* Record(name, pv_definition, has_setpoint); the names are such that the
\* entries of two records can have the same name
RecordObjects ==
  [kind : {"record"}, name : {"X", "X:SP", "Y"}, pv_definition : PvDefinitions,
   has_setpoint : BOOLEAN]

\* dict.update(other)
dict_update(d, other) ==
  [k \in DOMAIN d \cup DOMAIN other |-> IF k \in DOMAIN other THEN other[k] ELSE d[k]]

\* Record.add_standard_fields
add_standard_fields(rec) ==
  LET def == rec.pv_definition
      counted == IF def.count # 0
                 THEN [k \in {rec.name \o ".NELM", rec.name \o ".NORD"} |->
                         IF k = rec.name \o ".NELM"
                         THEN PvDefinition("int", 0, "", def.count)
                         ELSE PvDefinition("int", 0, "", 0)]
                 ELSE <<>>
      unit == IF def.unit # ""
              THEN [k \in {rec.name \o ".EGU"} |-> PvDefinition("string", 0, "", def.unit)]
              ELSE <<>>
  IN  dict_update(counted, unit)

\* Record.add_val_and_alarm_fields(base_pv)
add_val_and_alarm_fields(rec, base_pv) ==
  [k \in {VAL(base_pv), base_pv \o ".SEVR", base_pv \o ".STAT"} |->
     IF k = VAL(base_pv) THEN rec.pv_definition
     ELSE IF k = base_pv \o ".SEVR" THEN ALARM_SEVR_PV_FIELDS ELSE ALARM_STAT_PV_FIELDS]

\* Record.generate_database_entries
generate_database_entries(rec) ==
  LET base == [k \in {rec.name} |-> rec.pv_definition]
      d1 == dict_update(base, add_standard_fields(rec))
      d2 == dict_update(d1, add_val_and_alarm_fields(rec, rec.name))
      d3 == dict_update(d2, [k \in {SP(rec.name)} |-> rec.pv_definition])
  IN  IF rec.has_setpoint
      THEN dict_update(d3, add_val_and_alarm_fields(rec, SP(rec.name)))
      ELSE d2

\* STATIC_PV_DATABASE = {} before the loop over the records; the records the
\* loop has still to add are in pool and the database is in params
CatalogInit ==
  /\ path_ok = TRUE /\ isdir = TRUE /\ escaped = FALSE
  /\ params = <<>>
  /\ \E n \in 1..MaxDefinitions : pool \in [1..n -> RecordObjects]
  /\ pstat = <<>>
  /\ alarm = NoAlarm
  /\ already_started = FALSE
  /\ device = [measurement_on |-> FALSE]
  /\ driver = [has_data |-> FALSE]
  /\ nwrites = 0

\* for record in Records: STATIC_PV_DATABASE.update(record.value.database_entries)
CatalogUpdate ==
  /\ pool # <<>>
  /\ pool[1].kind = "record"
  /\ params' = dict_update(params, generate_database_entries(pool[1]))
  /\ pool' = Tail(pool)
  /\ UNCHANGED <<pstat, alarm, already_started, device, driver, path_ok, isdir, escaped,
                 nwrites>>

CatalogNext == CatalogUpdate

\* The build of the PV database from its records
CatalogSpec == CatalogInit /\ [][CatalogNext]_vars

\* ------------------------------------------------------ measurement control
\* The registers a run publishes
RunRegisters == {"CURRENT_REPETITION", "RUNNING", "WAITING", "TAKING_DATA"}

\* The step leaves the registers named, and their .VAL fields, as they are
Kept(names) ==
  \A r \in names : params'[r] = params[r] /\ params'[VAL(r)] = params[VAL(r)]

\* The step is a START write received while already_started is true; the
\* register task it submits is the last of the pool
RejectedStartWrite ==
  /\ already_started
  /\ nwrites' = nwrites + 1
  /\ pool'[Len(pool')].reason = "START"
  /\ ~pool'[Len(pool')].sp

\* C1: at most one measurement run is submitted, queued or executing at any
\* time, however the START writes interleave with the worker threads.
C1_OneRunAtATime == Cardinality(RunsInPool) <= 1

\* C2, as stated: a START write received while already_started is true
\* submits no run, puts the "Measurement active" text in ERRORMSG, and neither
\* the write nor the register task it leaves in the pool changes START,
\* CURRENT_REPETITION, RUNNING, WAITING, TAKING_DATA or already_started.
C2_RejectedStartChangesNothing ==
  [][ /\ RejectedStartWrite =>
           /\ pool' = Append(pool, pool'[Len(pool')])
           /\ params' = ErrorPv(params, MsgActive)
           /\ UNCHANGED <<already_started, device>>
      /\ \A i \in 1..Len(pool) :
           (pool[i].rej /\ RegApply(i)) =>
              /\ Kept({"START"} \cup RunRegisters)
              /\ UNCHANGED <<already_started, device>> ]_vars

\* C2, amended: a START write received while already_started is true submits
\* no run and puts the "Measurement active" text in ERRORMSG; the register
\* task it leaves in the pool then stores the written value in START and
\* START.VAL and changes nothing else: CURRENT_REPETITION, RUNNING, WAITING,
\* TAKING_DATA, already_started and the device stay as they are.
C2_RejectedStartStoresStart ==
  [][ /\ RejectedStartWrite =>
           /\ pool' = Append(pool, pool'[Len(pool')])
           /\ params' = ErrorPv(params, MsgActive)
           /\ UNCHANGED <<already_started, device>>
      /\ \A i \in 1..Len(pool) :
           (pool[i].rej /\ RegApply(i)) =>
              /\ params' = SetParamAndVal(params, "START", PyBool(pool[i].value))
              /\ UNCHANGED <<already_started, device>> ]_vars

\* A START write of 0 was rejected and its register task has run: START is 0
\* while the one run, past its guard, goes on with its first measurement.
C2_Witness ==
  /\ nwrites = 2 /\ Len(pool) = 1
  /\ pool[1].kind = "run" /\ pool[1].pc = "poll" /\ pool[1].rep = 1
  /\ already_started
  /\ params["ERRORMSG"] = MsgActive
  /\ params["START"] = 0 /\ params["TAKING_DATA"] = 1

\* C3: a run that read N from REPETITIONS, and whose measurements all ended
\* with a correlation, has called device.start() exactly N times when it
\* completes, and CURRENT_REPETITION is N then.
C3_StartsAndCountAreN ==
  [][ \A i \in 1..Len(pool) :
        (RunRelease(i) /\ pool[i].nodata = {}) =>
          /\ pool[i].starts = pool[i].n
          /\ params'["CURRENT_REPETITION"] = pool[i].n ]_vars

\* C4: every run that has set already_started reaches its end and clears it;
\* hence already_started is never left true with no run under way to clear it.
C4_GuardIsReleased ==
  already_started => \E i \in RunsInPool : pool[i].pc \notin {"cfg", "guard"}

\* C5: when the polling loop of a repetition ends with Correlation None the
\* driver reports has_data false and is_connected false, and otherwise
\* has_data true with is_connected as it was; a repetition whose loop ended
\* with None sets CONNECTED false and does not go on to write its files.
C5_NoDataRepetition ==
  [][ \A i \in 1..Len(pool) :
        /\ RunPollOff(i) =>
             IF device.Correlation = "None"
             THEN driver' = [has_data |-> FALSE, is_connected |-> FALSE]
             ELSE driver'.has_data /\ driver'.is_connected = driver.is_connected
        /\ ((RunHasData(i) \/ RunNoData(i)) /\ pool[i].rep \in pool[i].nodata) =>
             params'["CONNECTED"] = 0 /\ pool'[i].pc # "persist" ]_vars

\* C6: a run in which a repetition k acquired no data still ends at the end of
\* take_data, with device.start() called for every repetition, and with the
\* files written for every repetition after k that acquired data.
C6_NoDataSkipsOnlyItsOwnStep ==
  [][ \A i \in 1..Len(pool) :
        (pool[i].kind = "run" /\ pool[i].nodata # {} /\ pool' = Remove(pool, i)) =>
           /\ pool[i].pc = "release"
           /\ pool[i].starts = pool[i].n
           /\ \A k \in pool[i].nodata : \A j \in (k + 1)..pool[i].n :
                j \in pool[i].nodata \cup pool[i].saved ]_vars

\* ------------------------------------------------------- register store
\* str(error) of the IndexError a converter raises
MsgConversion == "list index out of range"

\* The task at position i is at its device call with a value the device
\* setter refuses
RefusedAt(i) ==
  /\ pool[i].kind = "reg" /\ pool[i].pc = "dev"
  /\ pool[i].reason \in DeviceRecords
  /\ ~ConversionRaises(pool[i].reason, pool[i].value)
  /\ DeviceRejects(pool[i].reason, pool[i].value)

\* The task at position i came through the name X of a register with a mirror
ThroughBase(i) ==
  pool[i].kind = "reg" /\ ~pool[i].sp /\ pool[i].reason \in SetpointRecords

C8_RefusedValueIsNotStored ==
  /\ [](\A r \in DeviceRecords :
          ~DeviceRejects(r, params[r]) /\ ~DeviceRejects(r, params[VAL(r)]))
  /\ [][ \A i \in 1..Len(pool) :
           (RefusedAt(i) /\ RegDevice(i)) =>
              /\ params' = ErrorPv(params, MsgDeviceError)
              /\ device' = device
              /\ pool' = Remove(pool, i) ]_vars

\* A write of half a second to MEASUREMENTDURATION was refused: the error is
\* in ERRORMSG and the register still holds the default.
C8_Witness ==
  /\ pool = <<>> /\ nwrites = 1
  /\ params["ERRORMSG"] = MsgDeviceError
  /\ params["MEASUREMENTDURATION"] = 20
  /\ params["MEASUREMENTDURATION.VAL"] = 20
  /\ params["MEASUREMENTDURATION:SP"] = 0

\* C9: when the conversion of a written value fails, the error is recorded in
\* ERRORMSG, the device setter is not called and no other register changes.
C9_ConversionFailureIsRecorded ==
  [][ \A i \in 1..Len(pool) :
        ( /\ pool[i].kind = "reg" /\ pool[i].pc = "dev"
          /\ pool[i].reason \in RecordNames
          /\ ConversionRaises(pool[i].reason, pool[i].value)
          /\ RegDevice(i) ) =>
            /\ params' = ErrorPv(params, MsgConversion)
            /\ device' = device ]_vars

C11_BroadcastStampsEveryEntry ==
  [][ \A i \in 1..Len(pool) :
        RunNoData(i) =>
          /\ alarm' = TimeoutInvalid
          /\ \A name \in StatusNames : pstat'[name] = TimeoutInvalid ]_vars

\* -------------------------------------------------------------- ordering
\* C12: writes to the same register are served in the order of their
\* submission: the task of write(X, v2) takes a step, its device call first,
\* only when no task of a write(X, v1) submitted before it, with another
\* value, is still in the pool.
C12_SameRegisterInSubmissionOrder ==
  [][ \A i \in 1..Len(pool) :
        (pool[i].kind = "reg" /\ RegStep(i)) =>
           ~\E j \in 1..(i - 1) :
              /\ pool[j].kind = "reg" /\ pool[j].reason = pool[i].reason
              /\ pool[j].value # pool[i].value ]_vars

\* ----------------------------------------------------------------- the wait
\* wait() is due before the acquisition of repetition r of the run t
WaitDue(t, r) == r > 1 \/ (r = 1 /\ t.was = 1)

\* the run t has passed the place of the wait step of its repetition r
PastWait(t, r) ==
  r < t.rep \/ (r = t.rep /\ t.pc \notin {"cfg", "guard", "rep", "wait", "waited"})

\* wait() was called before the acquisition of repetition r exactly when it
\* was due
WaitStepIffDue ==
  \A i \in RunsInPool :
    \A r \in 1..pool[i].rep :
      PastWait(pool[i], r) => (r \in pool[i].waited <=> WaitDue(pool[i], r))

\* WAITING is true only between the two publications of a wait step
WaitingOnlyInsideWait ==
  params["WAITING"] = 1 => \E i \in RunsInPool : pool[i].pc = "waited"

\* a run of N >= 1 repetitions that returns has waited N times with
\* wait-at-start and N - 1 times without
WaitsOfARun ==
  \A i \in RunsInPool :
    (pool[i].n >= 1 /\ (RunRelease(i) \/ RunPersistRaises(i))) =>
      Cardinality(pool[i].waited) = IF pool[i].was = 1 THEN pool[i].n ELSE pool[i].n - 1

\* C15: in a run of N repetitions the wait step is executed before the
\* acquisition of repetition r if and only if r > 1 or wait-at-start is set, a
\* run has executed N - 1 waits without wait-at-start and N with it when it
\* ends, and WAITING is false whenever the run is not inside a wait step.
C15_WaitBeforeEveryRepetitionButTheFirst ==
  /\ []WaitStepIffDue
  /\ []WaitingOnlyInsideWait
  /\ [][WaitsOfARun]_vars

\* ------------------------------------------------------------ configuration
\* C16: when configure() raises at the start of a run, the text of the error
\* is in ERRORMSG after the step, and the run is not aborted: when it returns
\* it has started the device N times, TAKING_DATA is false and already_started
\* is cleared.
C16_ConfigureErrorDoesNotAbort ==
  [][ \A i \in RunsInPool :
        /\ (RunConfigure(i) /\ pool'[i].cfgerr) =>
             params'["ERRORMSG"] \in {MsgActive, MsgDisconnected}
        /\ (pool[i].cfgerr /\ (RunRelease(i) \/ RunPersistRaises(i))) =>
             /\ pool[i].starts = pool[i].n
             /\ params'["TAKING_DATA"] = 0
             /\ ~already_started' ]_vars

\* ------------------------------------------------------ the output directory
\* C17: when the output directory was found invalid as the IOC started, the
\* error is in ERRORMSG after the construction, and no run ever writes its
\* files under that directory.
C17_NoFileUnderInvalidDirectory ==
  /\ ~path_ok => params["ERRORMSG"] = MsgBadPath
  /\ [](~path_ok => \A i \in RunsInPool : pool[i].saved = {})

\* ------------------------------------------------------------ enumerations
EnumRecords == {r \in RecordNames : Records[r].conv = "enum"}

\* C18: for every enumerated register and every index i of a member,
\* convert_to_pv(convert_from_pv(i)) = i, and the task of a write of i that
\* reaches setParam stores exactly i in the register.
C18_EnumRoundTrip ==
  /\ \A r \in EnumRecords :
       \A i \in 0..(Len(EnumMembers) - 1) :
         convert_to_pv(r, convert_from_pv(r, i)) = i
  /\ [][ \A k \in 1..Len(pool) :
           (pool[k].reason \in EnumRecords /\ RegParam(k)) =>
              params'[pool[k].reason] = pool[k].value ]_vars

\* the write of index 1 to CORRELATIONTYPE, whose default is index 0, is stored
C18_Witness ==
  /\ nwrites = 1
  /\ pool = <<>>
  /\ params["CORRELATIONTYPE"] = 1
  /\ device.settings["CORRELATIONTYPE"] = "CROSS"

\* ---------------------------------------------------------- the acquisition
\* C19: in one acquisition the device is started exactly once and before any
\* poll; update() is called only after a poll that found the measurement on,
\* never when the measurement is off or after a poll has found it off, and at
\* least once when the first poll found it on; the loop stops at the first
\* poll that finds the measurement off.
C19_StartOncePollThenUpdate ==
  /\ [](\A i \in RunsInPool :
          LET t == pool[i]
          IN  /\ t.pc = "poll" => t.starts = t.rep
              /\ t.pc # "poll" => (t.first = "none" /\ ~t.updated)
              /\ t.updated <=> t.first = "on")
  /\ [](~device.update_called_when_measurement_not_on)
  /\ [][ \A i \in RunsInPool :
           /\ RunStart(i) =>
                (pool[i].starts = pool[i].rep - 1 /\ pool'[i].starts = pool[i].rep)
           /\ (pool[i].pc = "poll" /\ ~device'.measurement_on) =>
                \A j \in 1..Len(pool') :
                  pool'[j].kind = "run" => pool'[j].pc = "stopped" ]_vars

\* the second acquisition of a run has polled, found the measurement on and
\* called update(), which brought data
C19_Witness ==
  \E i \in RunsInPool :
    /\ pool[i].pc = "poll" /\ pool[i].rep = 2 /\ pool[i].starts = 2
    /\ pool[i].first = "on" /\ pool[i].updated
    /\ device.measurement_on /\ device.Correlation = "data"

\* ---------------------------------------------------------------- failures
\* the step of the task at position i in which its body raises or is refused
FailureStep(i) ==
  \/ RunPersistRaises(i)
  \/ /\ RegDevice(i)
     /\ pool[i].reason \in RecordNames
     /\ ConversionRaises(pool[i].reason, pool[i].value)
          \/ DeviceRejects(pool[i].reason, pool[i].value)
  \/ RunConfigure(i) /\ pool'[i].cfgerr

FilteredResult(lags, corr, n, m) ==
  /\ Len(lags) = Len(corr)
  /\ Len(corr) <= n
  /\ \A k \in 1..Len(corr) : isfinite(corr[k])
  /\ \A k \in 1..Len(lags) : lags[k] >= m

\* C13: the result of a repetition, as the driver holds it after the
\* acquisition, as the array registers publish it and as the files carry it,
\* is two arrays of equal length, no longer than the input, every correlation
\* value finite and every lag at least the minimum time lag of the run.
C13_FilteredResultIsFiniteAndAboveMinLag ==
  \A i \in 1..Len(pool) :
    LET t == pool[i]
        n == Len(device.Correlation)
    IN  /\ t.pc \in {"publish", "persist", "saved"} =>
             FilteredResult(driver.lags, driver.corr, n, t.min_time_lag)
        /\ t.pc \in {"persist", "saved"} =>
             FilteredResult(params["LAGS"], params["CORRELATION_FUNCTION"], n,
                            t.min_time_lag)
        /\ t.pc = "saved" =>
             \A f \in 1..Len(t.user_file) :
               \A k \in 1..Len(t.user_file[f].correlation_function) :
                 LET row == t.user_file[f].correlation_function[k]
                 IN  isfinite(row[2].number) /\ row[1].number >= t.min_time_lag

ReadNames == DeviceRecords \cup {SP(r) : r \in DeviceRecords}

\* the new_pv_value of the writes of the register behind name that are in
\* flight
InFlightValues(name) ==
  {NewPvValue(pool[i].reason, pool[i].value) :
     i \in {k \in 1..Len(pool) :
              /\ pool[k].kind = "reg"
              /\ pool[k].reason = (IF EndsWithSP(name) THEN get_base_pv(name) ELSE name)
              /\ ~ConversionRaises(pool[k].reason, pool[k].value)}}

\* the values a read of name can return: the one of the construction and the
\* new_pv_value of every write a client makes of its register
ReadableValues(name) ==
  LET base == IF EndsWithSP(name) THEN get_base_pv(name) ELSE name
  IN  {InitParams(TRUE)[base]} \cup
      {NewPvValue(base, w[2]) :
         w \in {x \in StoreWrites : /\ x[1] \in {base, SP(base)}
                                   /\ ~ConversionRaises(base, x[2])}}

\* C21: a read of X, through X or X:SP, returns at every moment the value it
\* returned before or the value of a write of X that is in flight, never
\* another value; and in every state, the ones between the device call of a
\* write and its setParam included, the read returns a value of the register.
C21_ReadSeesOldOrNew ==
  /\ [][ \A name \in ReadNames :
           read(params', name) \in {read(params, name)} \cup InFlightValues(name) ]_vars
  /\ [](\A name \in ReadNames : read(params, name) \in ReadableValues(name))

\* a write of 1.5 s to MEASUREMENTDURATION is in flight: the device holds the
\* 2 s already and a read still returns the 10 s from before
C21_Witness ==
  /\ Len(pool) = 1
  /\ pool[1].reason = "MEASUREMENTDURATION" /\ pool[1].value = 3
  /\ pool[1].pc = "param"
  /\ device.settings["MEASUREMENTDURATION"] = 2
  /\ read(params, "MEASUREMENTDURATION") = 20
  /\ read(params, "MEASUREMENTDURATION:SP") = 20

\* --------------------------------------------------------------------- STOP
\* C22: a run during which device.stop() was called for a write to STOP is
\* not aborted: when it returns it has started the device N times, once for
\* every repetition, and it returns from its end, where TAKING_DATA is false
\* and already_started is cleared.
C22_StopDoesNotAbort ==
  [][ \A i \in RunsInPool :
        (pool[i].stop_called /\ (RunRelease(i) \/ RunPersistRaises(i))) =>
          /\ pool[i].starts = pool[i].n
          /\ params'["TAKING_DATA"] = 0
          /\ ~already_started' ]_vars

\* The step of the write to STOP leaves the loop of every run where it is,
\* and a run that reaches its end after it has started the device N times
StopLeavesTheLoopAlone ==
  [][ \A i \in RunsInPool :
        /\ (pool[i].stop_called /\ RunRelease(i)) => pool[i].starts = pool[i].n
        /\ (\E j \in 1..Len(pool) : StopApply(j)) =>
             \E k \in RunsInPool :
               /\ pool'[k].pc = pool[i].pc /\ pool'[k].rep = pool[i].rep
               /\ pool'[k].starts = pool[i].starts ]_vars

\* C23: in every state a read of X:SP returns what a read of X returns, for
\* every register X with a setpoint: both are the getParam of the base
\* register, whatever the X:SP entry of the store holds.
C23_SetpointReadIsBaseRead ==
  \A r \in SetpointRecords : read(params, SP(r)) = read(params, r)

\* after a write to MEASUREMENTDURATION alone the entry of the setpoint in
\* the store still has the value from before, and a read of it returns the new
C23_Witness ==
  /\ pool = <<>>
  /\ params["MEASUREMENTDURATION"] = 2
  /\ params[SP("MEASUREMENTDURATION")] # params["MEASUREMENTDURATION"]
  /\ read(params, SP("MEASUREMENTDURATION")) = 2

\* ----------------------------------------------------------------- arrays
\* C24: when set_array_pv_value(X, value) returns, X.NORD is the number of
\* elements of the array that register X holds.
C24_NordIsLengthHeld ==
  [][ \A i \in 1..Len(pool) :
        ArrayNord(i) =>
          params'[NORD(ArrayAt(pool[i].pc))] = Len(params'[ArrayAt(pool[i].pc)]) ]_vars

\* With no other writer of the registers, once both arrays are published the
\* count fields are the lengths of the arrays held
NordIsLengthPublished ==
  \A i \in 1..Len(pool) :
    pool[i].pc \in {"persist", "saved"} =>
      \A r \in ArrayRecords : params[NORD(r)] = Len(params[r])

\* ------------------------------------------------------------ the PV database
\* C25: the build of the database never replaces an entry that an earlier
\* record has put there: a record whose entries collide with the entries in
\* the database is not added over them.
C25_CollisionNeverReplaces ==
  [][ CatalogUpdate => \A k \in DOMAIN params : params'[k] = params[k] ]_vars

\* ------------------------------------------------------------ unknown names
\* the name the write of a task came through
WrittenName(t) == IF t.sp THEN SP(t.reason) ELSE t.reason

\* C26: every step of a write to a name that the PV database does not have
\* leaves ERRORMSG with "Can't update PV <name>, PV not found", calls no
\* device setter and changes no register other than ERRORMSG.
C26_UnknownNameIsOnlyReported ==
  [][ \A i \in 1..Len(pool) :
        (/\ pool[i].kind = "reg"
         /\ WrittenName(pool[i]) \notin Catalog
         /\ RegStep(i)) =>
          /\ params'["ERRORMSG"] \in
               {MsgNotFound(WrittenName(pool[i])), MsgNotFound(pool[i].reason)}
          /\ device' = device
          /\ \A k \in DOMAIN params \ {"ERRORMSG", VAL("ERRORMSG")} :
               params'[k] = params[k] ]_vars

\* a write to a name of no record is only reported
UnknownRecordIsOnlyReported ==
  [][ \A i \in 1..Len(pool) :
        (/\ pool[i].kind = "reg"
         /\ pool[i].reason \notin RecordNames
         /\ RegStep(i)) =>
          /\ params'["ERRORMSG"] = MsgNotFound(pool[i].reason)
          /\ device' = device
          /\ Len(pool') < Len(pool)
          /\ \A k \in DOMAIN params \ {"ERRORMSG", VAL("ERRORMSG")} :
               params'[k] = params[k] ]_vars

\* ---------------------------------------------------------------- the guard
\* C27: when a run calls configure(), already_started is true and TAKING_DATA
\* is published true already; hence no run is past its configure() while
\* already_started is false and it has yet to set it.
C27_GuardBeforeConfigure ==
  /\ [][ \A i \in RunsInPool :
           RunConfigure(i) => (already_started /\ params["TAKING_DATA"] = 1) ]_vars
  /\ [](\A i \in RunsInPool : pool[i].pc = "guard" => already_started)

\* C28: once a run has reached its end and no write is left in the pool,
\* START and START:SP hold the idle value 0.
C28_StartIsIdleAfterRun ==
  (pool = <<>> /\ nwrites > 0 /\ ~already_started) =>
    (params["START"] = 0 /\ params[SP("START")] = 0)

\* ------------------------------------------------------------ alarm state
\* C29: whenever no write and no run is under way, every entry that carries a
\* status and severity, the registers and their :SP mirrors, carries the
\* global alarm_status and alarm_severity.
C29_AlarmIsAllOrNothing ==
  pool = <<>> => \A name \in StatusNames : pstat[name] = alarm

\* ------------------------------------------------- the order in a repetition
\* C30: in every repetition r of a run the steps follow in this order:
\* CURRENT_REPETITION = r is published, then the wait if one is due, then
\* RUNNING = true, then device.start() and the polling, then RUNNING = false,
\* then the evaluation of the result with its publication and its files; the
\* device is started only while RUNNING is true, and a result is evaluated,
\* published or written only while RUNNING is false.
C30_OrderWithinRepetition ==
  [][ \A i \in RunsInPool :
        /\ RunRepetition(i) =>
             /\ params'["CURRENT_REPETITION"] = pool[i].rep
             /\ pool'[i].pc \in {"wait", "running"}
        /\ RunWait(i) => pool'[i].pc = "waited"
        /\ RunWaited(i) => pool'[i].pc = "running"
        /\ RunRunning(i) => (params'["RUNNING"] = 1 /\ pool'[i].pc = "start")
        /\ RunStart(i) => (params["RUNNING"] = 1 /\ pool'[i].pc = "poll")
        /\ (RunPollOn(i) \/ RunPollOff(i)) =>
             (params["RUNNING"] = 1 /\ pool'[i].pc \in {"poll", "stopped"})
        /\ RunStopped(i) => (params'["RUNNING"] = 0 /\ pool'[i].pc = "branch")
        /\ (RunHasData(i) \/ RunNoData(i) \/ RunPersist(i) \/ RunPersistRaises(i)) =>
             params["RUNNING"] = 0
        /\ (RunHasData(i) \/ RunNoData(i) \/ RunPersist(i)) =>
             /\ pool'[i].pc \in {"persist", "rep", "fin"}
             /\ pool'[i].pc = "rep" => pool'[i].rep = pool[i].rep + 1 ]_vars

\* ------------------------------------------------------- setpoint writes
\* The task at position i came through the name X:SP with a value that the
\* converter and the device setter accept
ThroughSetpoint(i) ==
  /\ pool[i].kind = "reg" /\ pool[i].sp /\ pool[i].reason \in DeviceRecords
  /\ ~ConversionRaises(pool[i].reason, pool[i].value)
  /\ ~DeviceRejects(pool[i].reason, pool[i].value)

Retained(d, k, m) == isfinite(d.Correlation[k]) /\ d.Lags[k] >= m

\* C32: the lags and the correlation function that the driver holds after an
\* acquisition are exactly the samples of the device that satisfy the
\* retention predicate (finite correlation and lag at least the minimum time
\* lag), in their order and pair by pair; the traces are returned as they are.
C32_FilterIsExact ==
  \A i \in 1..Len(pool) :
    pool[i].pc \in {"publish", "persist", "saved"} =>
      LET m == pool[i].min_time_lag
          mask == [k \in 1..Len(device.Correlation) |-> Retained(device, k, m)]
          data == get_data_as_arrays(device)
      IN  /\ driver.corr = BoolIndex(device.Correlation, mask)
          /\ driver.lags = BoolIndex(device.Lags, mask)
          /\ data.trace_a = device.TraceChA /\ data.trace_b = device.TraceChB

\* For the predicate that the code applies, finite correlation alone, the
\* filter is exact
FiniteFilterIsExact ==
  \A i \in 1..Len(pool) :
    pool[i].pc \in {"publish", "persist", "saved"} =>
      LET mask == [k \in 1..Len(device.Correlation) |-> isfinite(device.Correlation[k])]
      IN  /\ driver.corr = BoolIndex(device.Correlation, mask)
          /\ driver.lags = BoolIndex(device.Lags, mask)

\* ------------------------------------------------------- the alarm stays
\* C33: once a repetition has raised the disconnect alarm, the global alarm
\* stays TIMEOUT/INVALID, every entry whose status is set afterwards receives
\* TIMEOUT/INVALID, and neither CONNECTED nor the driver's is_connected goes
\* back to true, whatever the later repetitions and runs acquire.
C33_AlarmIsNeverCleared ==
  [][ /\ alarm = TimeoutInvalid =>
           /\ alarm' = TimeoutInvalid
           /\ \A name \in StatusNames :
                pstat'[name] # pstat[name] => pstat'[name] = TimeoutInvalid
      /\ params["CONNECTED"] = 0 => params'["CONNECTED"] = 0
      /\ ~driver.is_connected => ~driver'.is_connected ]_vars

\* repetition 1 found no data and raised the alarm; repetition 2 of the same
\* run has acquired a correlation, and the alarm and CONNECTED are as they were
C33_Witness ==
  \E i \in RunsInPool :
    /\ pool[i].pc = "persist" /\ pool[i].rep = 2 /\ pool[i].nodata = {1}
    /\ driver.has_data /\ ~driver.is_connected
    /\ alarm = TimeoutInvalid /\ params["CONNECTED"] = 0
    /\ pstat["RUNNING"] = TimeoutInvalid

\* ---------------------------------------------------- the store and the device
\* C34: whenever no write to a device-backed register X is in flight, X holds
\* the value that the device setter of X accepted last, the one the device has.
C34_StoreAgreesWithDevice ==
  \A r \in DeviceRecords :
    (\A i \in 1..Len(pool) : ~(pool[i].kind = "reg" /\ pool[i].reason = r)) =>
      params[r] = convert_to_pv(r, device.settings[r])

C36_StatusRegistersAgree ==
  /\ ~(params["RUNNING"] = 1 /\ params["WAITING"] = 1)
  /\ params["RUNNING"] = 1 => params["TAKING_DATA"] = 1
  /\ params["WAITING"] = 1 => params["TAKING_DATA"] = 1
  /\ RunsInPool = {} =>
       (params["RUNNING"] = 0 /\ params["WAITING"] = 0 /\ params["TAKING_DATA"] = 0)

\* ------------------------------------------------------ what starts a measurement
\* C37: only a write named exactly START starts a measurement: a write to
\* START:SP never submits a run, and a write to START made while no run is
\* active submits exactly one run, whatever the value written.
C37_OnlyStartStartsARun ==
  [][ nwrites' = nwrites + 1 =>
        LET t == pool'[Len(pool')]
        IN  /\ (t.reason = "START" /\ t.sp) => Len(pool') = Len(pool) + 1
            /\ (t.reason = "START" /\ ~t.sp /\ RunsInPool = {}) =>
                 /\ Len(pool') = Len(pool) + 2
                 /\ pool'[Len(pool) + 1].kind = "run" ]_vars

\* ------------------------------------------------- the parameters of a run
\* C38: the repetition count, the wait, wait-at-start and the minimum time
\* lag are read once when the run starts: a run starts with the values the
\* registers hold then, no later step of the run changes what it read, and
\* the run ends after the number of repetitions it read, whatever is written
\* to the four registers while it is active.
C38_ParametersReadOnce ==
  /\ [][ \A i \in 1..Len(pool) :
           /\ RunGuard(i) =>
                /\ pool'[i].n = get_converted_pv_value(params, "REPETITIONS")
                /\ pool'[i].was = get_converted_pv_value(params, "WAIT_AT_START")
                /\ pool'[i].wait_in_seconds = get_converted_pv_value(params, "WAIT")
                /\ pool'[i].min_time_lag_ns = get_converted_pv_value(params, "MIN_TIME_LAG")
           /\ (RunStep(i) /\ ~RunGuard(i) /\ Len(pool') = Len(pool)) =>
                /\ pool'[i].n = pool[i].n
                /\ pool'[i].was = pool[i].was
                /\ pool'[i].wait_in_seconds = pool[i].wait_in_seconds
                /\ pool'[i].min_time_lag_ns = pool[i].min_time_lag_ns ]_vars
  /\ [](\A i \in RunsInPool : pool[i].pc = "fin" => pool[i].rep = pool[i].n)

C38_Witness ==
  \E i \in RunsInPool :
    /\ pool[i].pc = "fin" /\ pool[i].rep = pool[i].n
    /\ pool[i].n # get_converted_pv_value(params, "REPETITIONS")
    /\ pool[i].wait_in_seconds # get_converted_pv_value(params, "WAIT")

\* ------------------------------------------------------ the .VAL mirrors
\* C39: whenever no write to a register X is in flight and no run is active,
\* X.VAL holds the value of X and X:SP.VAL the value of X:SP.
C39_ValFieldsAgree ==
  \A r \in RecordNames :
    (\A i \in 1..Len(pool) : pool[i].kind = "reg" /\ pool[i].reason # r) =>
      /\ params[VAL(r)] = params[r]
      /\ r \in SetpointRecords => params[VAL(SP(r))] = params[SP(r)]
====
